---- MODULE Spec2Model ----
(***************************************************************************)
(* Model of the download queue and chapter-acquisition pipeline of the     *)
(* manga downloader: DownloadManager (gui.py) with its worker thread, the  *)
(* UI thread's commands, the shared file system, and the three site        *)
(* adapters' download_chapter (assuracomics.py, mangakatana.py,            *)
(* webtoon.py).                                                            *)
(***************************************************************************)
EXTENDS Integers, Sequences, FiniteSets, TLC

(* ------------------------------------------------------------------ *)
(* Bounds of the model                                                 *)
(* ------------------------------------------------------------------ *)
\* chapters a site lists for a series (0..MaxCh)
MaxCh == 2
\* add_to_queue calls in one run of the general specification
MaxEnq == 2
\* cancel / pause / resume calls in one run of the general specification
MaxUi == 2
\* files added or removed by the outside world in one run
MaxExt == 1
\* the same for the specification of the queue's life cycle
MaxChQ == 1
MaxEnqQ == 3
MaxUiQ == 2
\* the same for the specifications of the shared folder, of cancel, of pause
MaxChF == 1
MaxEnqF == 1
MaxEnqC == 1
MaxUiC == 1
MaxUiP == 2
\* longest hand-picked chapter list in the specification of the sort
MaxLen == 4
\* chapters a site lists in the specification of the overall progress
MaxChP == 50
\* calls of add_to_queue in the specification of enqueueing
MaxEnqE == 2
\* longest chapter list a site answers to a scan for new chapters
MaxLive == 3
\* add_to_queue calls, pause / resume calls and chapters of a series in the
\* specification of the paused Task at the head of the queue
MaxEnqY == 3
MaxUiY == 6
MaxChY == 1
\* images of a chapter page (0..MaxImg) and the sizes of an image in bytes
MaxImg == 3
SmallImg == 100
LargeImg == 2000

(* ------------------------------------------------------------------ *)
(* Chapter ids: strings, modelled as sequences of characters           *)
(* ------------------------------------------------------------------ *)
Digits == {"0", "1", "2", "3", "4", "5", "6", "7", "8", "9"}

\* ord(c) for the characters the model uses
CharCode(c) ==
    CASE c = "." -> 46
      [] c = "0" -> 48 [] c = "1" -> 49 [] c = "2" -> 50 [] c = "3" -> 51
      [] c = "4" -> 52 [] c = "5" -> 53 [] c = "6" -> 54 [] c = "7" -> 55
      [] c = "8" -> 56 [] c = "9" -> 57
      [] c = "a" -> 97 [] c = "x" -> 120

DigitVal(c) == CharCode(c) - 48

\* position of the first "." of s, 0 when there is none
FirstDot(s) ==
    IF \E i \in 1..Len(s) : s[i] = "."
    THEN CHOOSE i \in 1..Len(s) : s[i] = "." /\ \A j \in 1..(i-1) : s[j] # "."
    ELSE 0

\* s.replace('.', '', 1)
RemoveFirstDot(s) ==
    LET d == FirstDot(s)
    IN IF d = 0 THEN s
       ELSE [i \in 1..(Len(s)-1) |-> IF i < d THEN s[i] ELSE s[i+1]]

\* str.isdigit(): non-empty and every character a digit
IsDigitStr(s) == Len(s) > 0 /\ \A i \in 1..Len(s) : s[i] \in Digits

\* x[0].replace('.', '', 1).isdigit()
IsNumericId(s) == IsDigitStr(RemoveFirstDot(s))

RECURSIVE DigitsToInt(_)
DigitsToInt(s) ==
    IF Len(s) = 0 THEN 0
    ELSE 10 * DigitsToInt(SubSeq(s, 1, Len(s)-1)) + DigitVal(s[Len(s)])

RECURSIVE Pow10(_)
Pow10(n) == IF n = 0 THEN 1 ELSE 10 * Pow10(n-1)

\* float(s) for a numeric id, as the exact decimal mant / 10^scale
FloatOf(s) ==
    LET d == FirstDot(s)
    IN [mant  |-> DigitsToInt(RemoveFirstDot(s)),
        scale |-> IF d = 0 THEN 0 ELSE Len(s) - d]

FloatLess(a, b) == a.mant * Pow10(b.scale) < b.mant * Pow10(a.scale)

\* Python's str < str: lexicographic by code point, a proper prefix is smaller
StrLess(s, t) ==
    \E i \in 1..(Len(t)) :
        /\ \A j \in 1..(i-1) : j <= Len(s) /\ s[j] = t[j]
        /\ \/ i = Len(s) + 1
           \/ i <= Len(s) /\ CharCode(s[i]) < CharCode(t[i])

\* the sort key of gui.py line 286: float(id) for a numeric id, else the id
SortKey(id) ==
    IF IsNumericId(id) THEN [num |-> TRUE, f |-> FloatOf(id), s |-> <<>>]
    ELSE [num |-> FALSE, f |-> [mant |-> 0, scale |-> 0], s |-> id]

\* key(a) < key(b) raises TypeError when one key is a float and the other a str
KeyClash(a, b) == SortKey(a).num # SortKey(b).num

\* ka < kb for two keys of one type
KeyBefore(ka, kb) ==
    IF ka.num THEN FloatLess(ka.f, kb.f) ELSE StrLess(ka.s, kb.s)

KeyLess(a, b) == KeyBefore(SortKey(a), SortKey(b))

\* the place of the element with key[i] in the stably sorted list: after
\* every element with a smaller key, and after the earlier elements whose key
\* is not greater
SortedPlace(key, i) ==
    1 + Cardinality({j \in DOMAIN key :
                        \/ KeyBefore(key[j], key[i])
                        \/ j < i /\ ~KeyBefore(key[i], key[j])})

\* the stable sort by key of a list whose keys are all of one type; the key
\* of each element is computed once
StableSort(s) ==
    LET key == [i \in 1..Len(s) |-> SortKey(s[i])]
        place == [i \in 1..Len(s) |-> SortedPlace(key, i)]
    IN [p \in 1..Len(s) |-> s[CHOOSE i \in 1..Len(s) : place[i] = p]]

\* list.sort scans the leading run first (a[i] < a[i-1] for i = 1, 2, ...)
\* before it moves anything: a float/str pair met in that scan raises with
\* the list untouched. The scan stops where the run breaks.
RunDescending(s) == Len(s) >= 2 /\ ~KeyClash(s[2], s[1]) /\ KeyLess(s[2], s[1])

RECURSIVE RunScanClash(_, _, _)
RunScanClash(s, i, desc) ==
    IF i > Len(s) THEN FALSE
    ELSE IF KeyClash(s[i], s[i-1]) THEN TRUE
    ELSE IF KeyLess(s[i], s[i-1]) # desc THEN FALSE
    ELSE RunScanClash(s, i+1, desc)

Mixed(s) == \E i, j \in 1..Len(s) : KeyClash(s[i], s[j])

\* position of the first element whose key is of another type than s[1]'s
FirstOther(s) ==
    CHOOSE i \in 2..Len(s) :
        KeyClash(s[i], s[1]) /\ \A j \in 2..(i-1) : ~KeyClash(s[j], s[1])

\* chapters.sort(key=...) inside try/except (gui.py 285-289): the list the
\* worker goes on with. All keys of one type: the stable sort. Mixed keys:
\* TypeError, caught, and the list stays as the failed sort left it:
\* untouched when the clash is met in the run scan, else sorted up to the
\* first element of the other type (CPython inserts the elements one by one
\* into the sorted front of the list).
SortChapters(s) ==
    IF ~Mixed(s) THEN StableSort(s)
    ELSE IF RunScanClash(s, 2, RunDescending(s)) THEN s
    ELSE StableSort(SubSeq(s, 1, FirstOther(s) - 1))
            \o SubSeq(s, FirstOther(s), Len(s))

(* ------------------------------------------------------------------ *)
(* Series, URLs, tasks, files                                          *)
(* ------------------------------------------------------------------ *)
Sites == {"asura", "katana", "webtoon"}
Names == {"A", "B"}

\* the URLs a caller hands to add_to_queue: one per site pattern, and one
\* that matches no pattern
Urls == {"asura:a", "katana:b", "webtoon:b", "bad"}

\* validate_manga_url: <<valid, site_type>>
AcceptsAnyUrl(url) == <<TRUE, "asura">>
validate_manga_url(url) ==
    CASE url = "asura:a"   -> <<TRUE, "asura">>
      [] url = "katana:b"  -> <<TRUE, "katana">>
      [] url = "webtoon:b" -> <<TRUE, "webtoon">>
      [] OTHER             -> <<FALSE, "">>

\* _get_manga_name(url, site_type): the series name derived from the URL
get_manga_name(url, site_type) ==
    CASE url = "asura:a"   -> "A"
      [] url = "katana:b"  -> "B"
      [] url = "webtoon:b" -> "B"
      [] OTHER             -> "Unknown Manga"

\* the decimal string of a chapter number
RECURSIVE ChId(_)
ChId(i) ==
    IF i < 10 THEN <<CHOOSE c \in Digits : DigitVal(c) = i>>
    ELSE ChId(i \div 10) \o ChId(i % 10)

\* what a site lists for a series with n chapters: newest first
Listing(n) == [i \in 1..n |-> ChId(n + 1 - i)]

\* ids used by hand-picked chapter lists
IdOneHalf == <<"1", ".", "5">>
IdTen == <<"1", "0">>
IdX == <<"x">>
IdA == <<"a">>

AllIds == {ChId(i) : i \in 1..(MaxCh + 1)} \cup {IdOneHalf, IdTen, IdX, IdA}

\* {download_path}/{manga_name}/Chapter {chapter_num}.cbz
ChapterPath(name, ch) == <<name, ch>>
Paths == {ChapterPath(n, c) : n \in Names, c \in AllIds}
NoPath == <<>>

\* a file is absent, exists with size 0, or exists with size > 0
FileStates == {"absent", "empty", "full"}

\* the file system: a function on the paths that exist
FileState(fs, p) == IF p \in DOMAIN fs THEN fs[p] ELSE "absent"
WriteFile(fs, p, st) ==
    IF st = "absent" THEN [q \in DOMAIN fs \ {p} |-> fs[q]]
    ELSE [q \in DOMAIN fs \cup {p} |-> IF q = p THEN st ELSE fs[q]]
NoFiles == WriteFile(<<>>, NoPath, "absent")

NoCh == <<>>
Ev(sig, name, ch, arg) == [sig |-> sig, name |-> name, ch |-> ch, arg |-> arg]

VARIABLES
    download_queue,       \* queue.Queue of (url, site_type, chapters)
    unfinished_tasks,     \* the Queue's count of put()s not yet task_done()
    download_queue_list,  \* the display list: series names
    running,              \* DownloadManager.running
    cancel_requested,     \* set of series names
    paused_downloads,     \* set of series names
    files,                \* the file system under the download root
    wpc,                  \* where the worker thread is; "dead": no worker
    w_task,               \* the dequeued (url, site_type, chapter_range)
    chapters,             \* the worker's chapter list
    idx,                  \* index (from 1) of the chapter at the loop head
    successful_chapters,  \* the worker's success counter
    cbz_path,             \* what _download_chapter returned
    w_how,                \* how the current pass went so far
    zombies,              \* workers past running = False, list reset pending
    ui_pc,                \* the UI thread: "idle", or inside add_to_queue
    emitted,              \* the signals emitted by the last step
    nEnq, nUi, nExt,      \* calls made so far by the callers / outside world
    adapter_calls,        \* observer: calls of a site adapter's download_chapter
    cancel_at,            \* observer: the pass as it stood when cancel was called
    owed,                 \* observer: chapters put back by a pause, still to do
    last_call,            \* observer: the adapter call just made and what it met
    progress_seen,        \* observer: the overall percent last emitted in this pass
    history,              \* MangaHistoryManager.history: None, or the mapping
    history_file,         \* ~/.mangadownloader/history.json on disk
    backup_file,          \* history.json.backup exists
    h_ret,                \* the last call of a history operation and its result
    add_ret               \* the last call of add_to_queue: URL and return value

qVars == <<download_queue, unfinished_tasks, download_queue_list>>
flagVars == <<cancel_requested, paused_downloads>>
wVars == <<wpc, w_task, chapters, idx, successful_chapters, cbz_path, w_how>>
envVars == <<nEnq, nUi, nExt>>
obsVars == <<adapter_calls, cancel_at, owed, last_call, progress_seen>>
histVars == <<history, history_file, backup_file, h_ret>>
vars == <<qVars, running, flagVars, files, wVars, zombies, ui_pc, emitted, envVars,
          obsVars, histVars, add_ret>>

\* add_to_queue has not been called: its argument and its return value
NoReturn == [url |-> "", ret |-> ""]

NoCancel == [set |-> FALSE, done |-> 0, calls |-> 0]

\* no adapter call on record
NoCall ==
    [called |-> FALSE, caller |-> "", site |-> "", path |-> <<>>, pre |-> "",
     net |-> [setup |-> "", n |-> 0, first |-> 0, late |-> 0, large |-> TRUE],
     ret |-> <<>>, count |-> 0, stage |-> "", imgs |-> <<>>, tries |-> <<>>]

(* ------------------------------------------------------------------ *)
(* MangaHistoryManager: the history store                              *)
(* ------------------------------------------------------------------ *)
\* an empty dict
EmptyMap == [n \in {} |-> 0]

\* self.history when _load_history returned nothing
NoneHistory == [isdict |-> FALSE, map |-> EmptyMap]
DictHistory(m) == [isdict |-> TRUE, map |-> m]

\* history.json: absent; unreadable (open or json.load raises); valid JSON
\* that is not a mapping; or a mapping
NoHistoryFile == [kind |-> "absent", map |-> EmptyMap]
UnreadableFile == [kind |-> "unreadable", map |-> EmptyMap]
NonDictFile == [kind |-> "nondict", map |-> EmptyMap]
DictFile(m) == [kind |-> "dict", map |-> m]

\* an entry of the mapping: timestamps are left out
HistoryEntry(url, site_type, chs) == [url |-> url, site_type |-> site_type, chapters |-> chs]

\* _load_history (64-82): what self.history becomes, and what is left on
\* disk; rename_ok: whether os.rename at line 77 succeeds
load_history(file, backup, rename_ok) ==
    CASE file.kind = "dict" ->
             [history |-> DictHistory(file.map), file |-> file, backup |-> backup]
      [] file.kind = "nondict" /\ rename_ok ->
             [history |-> NoneHistory, file |-> NoHistoryFile, backup |-> TRUE]
      [] OTHER ->
             [history |-> NoneHistory, file |-> file, backup |-> backup]

\* no history operation called yet
NoRet ==
    [op |-> "", name |-> "", raised |-> FALSE, keys |-> {}, data |-> {},
     new |-> EmptyMap, live |-> EmptyMap]
Ret(op, name, raised) == [NoRet EXCEPT !.op = op, !.name = name, !.raised = raised]

\* what add_manga (92-105) makes of the mapping
AddManga(m, name, url, site_type) ==
    IF name \in DOMAIN m THEN m
    ELSE [n \in DOMAIN m \cup {name} |->
             IF n = name THEN HistoryEntry(url, site_type, {}) ELSE m[n]]

\* what add_downloaded_chapter (107-118) makes of the mapping
AddChapter(m, name, ch, site_type) ==
    LET m1 == AddManga(m, name, "", site_type)
    IN [m1 EXCEPT ![name].chapters = @ \cup {ch}]

\* a history operation that changes the mapping: it raises on None (the
\* `in` test of lines 94, 109, 149), else it updates and saves the file
HistoryUpdate(op, name, m) ==
    IF ~history.isdict
    THEN /\ h_ret' = Ret(op, name, TRUE)
         /\ UNCHANGED <<history, history_file>>
    ELSE /\ history' = DictHistory(m)
         /\ history_file' = DictFile(m)
         /\ h_ret' = Ret(op, name, FALSE)

\* what every history operation leaves alone
HistoryFrame ==
    /\ emitted' = <<>>
    /\ UNCHANGED <<qVars, running, flagVars, files, wVars, zombies, ui_pc, envVars,
                   obsVars, backup_file, add_ret>>

\* add_manga (92-105)
add_manga(name, url, site_type) ==
    /\ HistoryUpdate("add_manga", name, AddManga(history.map, name, url, site_type))
    /\ HistoryFrame

\* add_downloaded_chapter (107-118)
add_downloaded_chapter(name, ch, site_type) ==
    /\ HistoryUpdate("add_downloaded_chapter", name,
                     AddChapter(history.map, name, ch, site_type))
    /\ HistoryFrame

\* delete_manga (147-151): the file is saved only when the series was there
delete_manga(name) ==
    /\ IF history.isdict /\ name \notin DOMAIN history.map
       THEN /\ h_ret' = Ret("delete_manga", name, FALSE)
            /\ UNCHANGED <<history, history_file>>
       ELSE HistoryUpdate("delete_manga", name,
                          [n \in DOMAIN history.map \ {name} |-> history.map[n]])
    /\ HistoryFrame

\* get_manga_list (120-122): None has no keys()
get_manga_list ==
    /\ h_ret' = [Ret("get_manga_list", "", ~history.isdict)
                   EXCEPT !.keys = DOMAIN history.map]
    /\ UNCHANGED <<history, history_file>>
    /\ HistoryFrame

\* get_manga_data (124-126): history.get(manga_name, {}); None has no get()
MangaDataOf(m, name) == IF name \in DOMAIN m THEN {m[name]} ELSE {}
get_manga_data(name) ==
    /\ h_ret' = [Ret("get_manga_data", name, ~history.isdict)
                   EXCEPT !.data = MangaDataOf(history.map, name)]
    /\ UNCHANGED <<history, history_file>>
    /\ HistoryFrame

\* what a site answers to get_chapter_links: the call raises, or returns
\* the chapters it lists, in the adapter's order
LiveIds == {ChId(1), ChId(2), IdOneHalf}
LiveLists ==
    {l \in UNION {[1..n -> LiveIds] : n \in 0..MaxLive} :
        \A i, j \in DOMAIN l : i # j => l[i] # l[j]}
LiveOutcomes ==
    {[raises |-> TRUE, list |-> <<>>]} \cup {[raises |-> FALSE, list |-> l] : l \in LiveLists}

\* _get_chapters (392-399) for a stored site type: [] for a site type that is
\* none of the three; only the asura adapter lets an exception out
GetChapters(site_type, out) ==
    IF site_type \notin Sites \/ (out.raises /\ site_type # "asura")
    THEN [raises |-> FALSE, list |-> <<>>]
    ELSE out

\* the loop of lines 554-557: the listed chapters that are not keys of the
\* stored chapters, in the order listed
KeepsKnown(all, downloaded) == all
RECURSIVE MissingChapters(_, _)
MissingChapters(all, downloaded) ==
    IF all = <<>> THEN <<>>
    ELSE (IF Head(all) \notin downloaded THEN <<Head(all)>> ELSE <<>>)
            \o MissingChapters(Tail(all), downloaded)

\* lines 534-537: the series scanned
ScanList(m, manga_name) == IF manga_name \in DOMAIN m THEN {manga_name} ELSE DOMAIN m

\* lines 541-548: a series without URL or site type is passed over
HasSource(entry) == entry.url # "" /\ entry.site_type # ""

Scanned(m, manga_name) == {n \in ScanList(m, manga_name) : HasSource(m[n])}

\* lines 550-562 for one series: an exception of the listing is logged
ScanOne(entry, out) ==
    LET g == GetChapters(entry.site_type, out)
    IN IF g.raises THEN <<>> ELSE MissingChapters(g.list, entry.chapters)

\* scan_for_new_chapters (527-564), lv[n] being what the site of series n
\* answers; get_manga_list at line 534 raises on None
scan_for_new_chapters(manga_name, lv) ==
    LET m == history.map
        scanned == Scanned(m, manga_name)
        found == {n \in scanned : ScanOne(m[n], lv[n]) # <<>>}
    IN /\ h_ret' =
            IF ~history.isdict THEN Ret("scan_for_new_chapters", manga_name, TRUE)
            ELSE [Ret("scan_for_new_chapters", manga_name, FALSE) EXCEPT
                    !.new = [n \in found |-> ScanOne(m[n], lv[n])],
                    !.live = [n \in scanned |-> GetChapters(m[n].site_type, lv[n])]]
       /\ UNCHANGED <<history, history_file>>
       /\ HistoryFrame

\* mangakatana.check_for_updates (312-334) called with the chapters stored
\* for a series: [] when nothing is listed or anything raises
NewChapters(out, current) ==
    IF out.raises \/ out.list = <<>> THEN <<>> ELSE MissingChapters(out.list, current)
check_for_updates(name, out) ==
    /\ history.isdict /\ name \in DOMAIN history.map
    /\ h_ret' = [Ret("check_for_updates", name, FALSE) EXCEPT
                   !.new = [n \in {name} |-> NewChapters(out, history.map[name].chapters)],
                   !.live = [n \in {name} |-> out]]
    /\ UNCHANGED <<history, history_file>>
    /\ HistoryFrame

\* the download folder at start-up: empty, or holding chapter 1 of series A
\* from an earlier session (possibly as a zero-byte file)
InitFiles == {WriteFile(NoFiles, ChapterPath("A", ChId(1)), st) : st \in FileStates}

NoTask == [url |-> "", site_type |-> "", chapters |-> <<>>]
manga_name == get_manga_name(w_task.url, w_task.site_type)

\* DownloadManager.__init__, lines 155-163
InitManager ==
    /\ download_queue = <<>>
    /\ unfinished_tasks = 0
    /\ download_queue_list = <<>>
    /\ running = FALSE
    /\ cancel_requested = {}
    /\ paused_downloads = {}
    /\ files \in InitFiles
    /\ wpc = "dead"
    /\ w_task = NoTask
    /\ chapters = <<>>
    /\ idx = 1
    /\ successful_chapters = 0
    /\ cbz_path = NoPath
    /\ w_how = ""
    /\ zombies = 0
    /\ ui_pc = "idle"
    /\ emitted = <<>>
    /\ nEnq = 0 /\ nUi = 0 /\ nExt = 0
    /\ adapter_calls = 0
    /\ cancel_at = NoCancel
    /\ owed = {}
    /\ last_call = NoCall
    /\ progress_seen = 0
    /\ add_ret = NoReturn

\* MangaHistoryManager.__init__ (60-62) finding `file` on disk
InitHistory(file, rename_ok) ==
    LET l == load_history(file, FALSE, rename_ok)
    IN /\ history = l.history
       /\ history_file = l.file
       /\ backup_file = l.backup
       /\ h_ret = [NoRet EXCEPT !.op = "load", !.name = file.kind]

\* the state after construction, at the first run: no history file yet
Init == InitManager /\ InitHistory(NoHistoryFile, TRUE)

\* the program started again: DownloadManager.__init__ (154-164) with the
\* history file as the last run left it
Restart(rename_ok) ==
    LET l == load_history(history_file, backup_file, rename_ok)
    IN /\ wpc = "dead" /\ zombies = 0 /\ ui_pc = "idle"
       /\ history' = l.history
       /\ history_file' = l.file
       /\ backup_file' = l.backup
       /\ h_ret' = [NoRet EXCEPT !.op = "load", !.name = history_file.kind]
       /\ download_queue' = <<>>
       /\ unfinished_tasks' = 0
       /\ download_queue_list' = <<>>
       /\ running' = FALSE
       /\ cancel_requested' = {}
       /\ paused_downloads' = {}
       /\ emitted' = <<>>
       /\ add_ret' = NoReturn
       /\ UNCHANGED <<files, wVars, zombies, ui_pc, envVars, obsVars>>

(* ------------------------------------------------------------------ *)
(* queue.Queue                                                         *)
(* ------------------------------------------------------------------ *)
\* Queue.task_done(): raises ValueError when called more often than put()
TaskDoneRaises(u) == u - 1 < 0
TaskDoneValue(u) == IF u - 1 < 0 THEN u ELSE u - 1

(* ------------------------------------------------------------------ *)
(* The UI thread: add_to_queue, cancel, pause, resume                  *)
(* ------------------------------------------------------------------ *)
\* add_to_queue, lines 181-197: validate, put, append to the display list
AddToQueue(url, chs) ==
    /\ ui_pc = "idle"
    /\ nEnq' = nEnq + 1
    /\ LET v == validate_manga_url(url)
       IN IF ~v[1]
          THEN /\ emitted' = <<Ev("show_toast", "", NoCh, 0)>>
               /\ add_ret' = [url |-> url, ret |-> "False"]
               /\ UNCHANGED <<qVars, ui_pc>>
          ELSE /\ download_queue' = Append(download_queue,
                     [url |-> url, site_type |-> v[2], chapters |-> chs])
               /\ unfinished_tasks' = unfinished_tasks + 1
               /\ download_queue_list' =
                     Append(download_queue_list, get_manga_name(url, v[2]))
               /\ emitted' = <<Ev("queue_updated", "", NoCh, 0)>>
               /\ ui_pc' = "add_test"
               /\ add_ret' = [url |-> url, ret |-> ""]
    /\ UNCHANGED <<running, flagVars, files, wVars, zombies, nUi, nExt, obsVars>>
    /\ UNCHANGED histVars

\* add_to_queue, lines 199-202, with start_download_thread (235-239)
AddToQueueStart ==
    /\ ui_pc = "add_test"
    /\ ui_pc' = "idle"
    /\ add_ret' = [add_ret EXCEPT !.ret = "True"]
    /\ IF ~running
       THEN /\ running' = TRUE
            /\ wpc' = "loop"
       ELSE UNCHANGED <<running, wpc>>
    /\ emitted' = <<>>
    /\ UNCHANGED <<qVars, flagVars, files, w_task, chapters, idx,
                   successful_chapters, cbz_path, w_how, zombies, envVars, obsVars>>
    /\ UNCHANGED histVars

\* the list without its first entry equal to name
RECURSIVE RemoveFirst(_, _)
RemoveFirst(l, name) ==
    IF Len(l) = 0 THEN l
    ELSE IF Head(l) = name THEN Tail(l)
    ELSE <<Head(l)>> \o RemoveFirst(Tail(l), name)

cancel_download(name) ==
    /\ ui_pc = "idle"
    /\ nUi' = nUi + 1
    /\ cancel_requested' = cancel_requested \cup {name}
    /\ download_queue_list' = RemoveFirst(download_queue_list, name)
    /\ emitted' = <<Ev("queue_updated", "", NoCh, 0),
                    Ev("download_cancelled", name, NoCh, 0)>>
    /\ cancel_at' =
         IF /\ ~cancel_at.set
            /\ wpc \in {"boundary", "download", "verdict"}
            /\ manga_name = name
         THEN [set |-> TRUE, done |-> idx - 1, calls |-> adapter_calls]
         ELSE cancel_at
    /\ UNCHANGED <<download_queue, unfinished_tasks, running, paused_downloads,
                   files, wVars, zombies, ui_pc, nEnq, nExt, adapter_calls, owed,
                   last_call, progress_seen>>
    /\ UNCHANGED <<histVars, add_ret>>

pause_download(name) ==
    /\ ui_pc = "idle"
    /\ nUi' = nUi + 1
    /\ paused_downloads' = paused_downloads \cup {name}
    /\ emitted' = <<Ev("download_paused", name, NoCh, 0)>>
    /\ UNCHANGED <<qVars, running, cancel_requested, files, wVars, zombies,
                   ui_pc, nEnq, nExt, obsVars>>
    /\ UNCHANGED <<histVars, add_ret>>

resume_download(name) ==
    /\ ui_pc = "idle"
    /\ nUi' = nUi + 1
    /\ IF name \in paused_downloads
       THEN /\ paused_downloads' = paused_downloads \ {name}
            /\ emitted' = <<Ev("download_resumed", name, NoCh, 0)>>
       ELSE /\ emitted' = <<>>
            /\ UNCHANGED paused_downloads
    /\ UNCHANGED <<qVars, running, cancel_requested, files, wVars, zombies,
                   ui_pc, nEnq, nExt, obsVars>>
    /\ UNCHANGED <<histVars, add_ret>>

(* ------------------------------------------------------------------ *)
(* The outside world: the download folder is shared                    *)
(* ------------------------------------------------------------------ *)
ExternalWrite(p, st) ==
    /\ nExt' = nExt + 1
    /\ FileState(files, p) # st
    /\ files' = WriteFile(files, p, st)
    /\ emitted' = <<>>
    /\ UNCHANGED <<qVars, running, flagVars, wVars, zombies, ui_pc, nEnq, nUi,
                   obsVars>>
    /\ UNCHANGED <<histVars, add_ret>>

(* ------------------------------------------------------------------ *)
(* File checks and the site adapters as the worker sees them           *)
(* ------------------------------------------------------------------ *)
\* os.path.exists(p) and os.path.getsize(p) > 0
ArchiveOk(fs, p) == p # NoPath /\ FileState(fs, p) = "full"

\* a worker that never skips
SkipNever(fs, p) == FALSE

\* the worker's skip test, gui.py 313-314
SkipCheck(fs, p) == ArchiveOk(fs, p)

\* the test inside _download_chapter before it calls the adapter, 409-416
DlPreCheck(fs, p) == ArchiveOk(fs, p)

\* a worker that trusts the path it was handed and does not look at the disk
VerdictTrustsPath(fs, p) == p # NoPath

\* the worker's test of what _download_chapter returned, line 321
VerdictCheck(fs, p) == p # NoPath /\ ArchiveOk(fs, p)

\* What a call of a site adapter meets on the network:
\*   setup: "ok", "nodir" (the series folder cannot be made) or "nopage" (the
\*          browser or the chapter page cannot be loaded);
\*   imgs:  the image URLs of the page, each with the number of attempts that
\*          fail before one succeeds (MaxRetries: none succeeds);
\*   len:   the size of an image of the chapter
MaxRetries == 3
ImgOutcomes == [fails : 0..MaxRetries]
Nets ==
    {[setup |-> "nodir", imgs |-> <<>>, len |-> LargeImg],
     [setup |-> "nopage", imgs |-> <<>>, len |-> LargeImg]}
    \cup {[setup |-> "ok", imgs |-> im, len |-> l] :
             im \in UNION {[1..n -> ImgOutcomes] : n \in 0..MaxImg},
             l \in {SmallImg, LargeImg}}

\* three of them: a page with one image that loads, no page, no folder
NetsBasic ==
    {[setup |-> "ok", imgs |-> <<[fails |-> 0]>>, len |-> LargeImg],
     [setup |-> "nopage", imgs |-> <<>>, len |-> LargeImg],
     [setup |-> "nodir", imgs |-> <<>>, len |-> LargeImg]}

\* the images fetched by a loop that tries each URL `tries` times
Fetched(imgs, tries) ==
    LET Got(im) == im.fails < tries IN SelectSeq(imgs, Got)

\* the number of requests the loop `for attempt in range(tries)` makes for
\* one image: it breaks at the first success and gives up after the last
\* failure (mangakatana.py 278-293, assuracomics.py 175-188)
RetryLoop(im, tries) == IF im.fails < tries THEN im.fails + 1 ELSE tries

\* the requests made for each image of the page by the image loop of
\* mangakatana.download_chapter (277-296): the failure of an image is logged
\* and the loop goes on
katana_image_tries(imgs) == [i \in 1..Len(imgs) |-> RetryLoop(imgs[i], MaxRetries)]

\* the same for assuracomics.download_chapter (173-206)
asura_image_tries(imgs) == [i \in 1..Len(imgs) |-> RetryLoop(imgs[i], MaxRetries)]

\* the same for webtoon.download_chapter (111-122): one request per image,
\* and the first failure leaves the loop
webtoon_image_tries(imgs) ==
    [i \in 1..Len(imgs) |->
        IF \A j \in 1..(i - 1) : imgs[j].fails = 0 THEN 1 ELSE 0]

ImageTries(site, imgs) ==
    CASE site = "asura"   -> asura_image_tries(imgs)
      [] site = "katana"  -> katana_image_tries(imgs)
      [] site = "webtoon" -> webtoon_image_tries(imgs)

\* size of a zip container of n stored entries named NNN.jpg, each of len
\* bytes: the end record, and per entry a local header, a central header and
\* the bytes
ZipEndSize == 22
ZipEntryOverhead == 90
ZipSize(n, len) == ZipEndSize + n * (ZipEntryOverhead + len)

SizeState(n) == IF n > 0 THEN "full" ELSE "empty"

\* what an adapter call gives back: the path returned ("" is NoPath), the
\* folder afterwards, the images in the archive it wrote, how far it got
\* ("call", "setup", "exists", "page", "images") and whether it raised
Outcome(ret, fs, count, stage, raised) ==
    [ret |-> ret, files |-> fs, count |-> count, stage |-> stage, raised |-> raised]

\* lines 98-104 of assuracomics.py, 120-126 of mangakatana.py: a zero-byte
\* file found at the path is removed
RemoveEmpty(fs, p) == IF FileState(fs, p) = "empty" THEN WriteFile(fs, p, "absent") ELSE fs

\* assuracomics.download_chapter
asura_download_chapter(fs, p, net) ==
    IF net.setup = "nodir" THEN Outcome(NoPath, fs, 0, "setup", FALSE)
    ELSE IF FileState(fs, p) = "full" THEN Outcome(p, fs, 0, "exists", FALSE)
    ELSE IF net.setup = "nopage" THEN Outcome(NoPath, RemoveEmpty(fs, p), 0, "page", FALSE)
    ELSE LET image_paths == Fetched(net.imgs, MaxRetries)
         IN IF Len(net.imgs) = 0 \/ Len(image_paths) = 0
            THEN Outcome(NoPath, RemoveEmpty(fs, p), 0, "images", FALSE)
            ELSE Outcome(p, WriteFile(fs, p, SizeState(ZipSize(Len(image_paths), net.len))),
                         Len(image_paths), "images", FALSE)

\* an archiver that keeps whatever container it wrote
KeepsAnySize(size) == FALSE

\* mangakatana.py 298: os.path.getsize(cbz_path) < 1000
MinCbzSize == 1000
TooSmall(size) == size < MinCbzSize

\* mangakatana.download_chapter (the path of the dict it returns)
katana_download_chapter(fs, p, net) ==
    IF net.setup = "nodir" THEN Outcome(NoPath, fs, 0, "setup", FALSE)
    ELSE IF FileState(fs, p) = "full" THEN Outcome(p, fs, 0, "exists", FALSE)
    ELSE IF net.setup = "nopage" THEN Outcome(NoPath, RemoveEmpty(fs, p), 0, "page", FALSE)
    ELSE IF Len(net.imgs) = 0
    THEN Outcome(NoPath, RemoveEmpty(fs, p), 0, "images", FALSE)
    ELSE LET written == Fetched(net.imgs, MaxRetries)
             size == ZipSize(Len(written), net.len)
         IN IF TooSmall(size)
            THEN Outcome(NoPath, WriteFile(fs, p, "absent"), 0, "images", FALSE)
            ELSE Outcome(p, WriteFile(fs, p, SizeState(size)),
                         Len(written), "images", FALSE)

\* webtoon.download_chapter: a file of any size at the path is returned as it
\* is; every image is fetched once, the first failure raises and the except
\* clause removes the container. When the folder cannot be made the except
\* clause itself raises (cbz_path is not bound yet).
webtoon_download_chapter(fs, p, net) ==
    IF net.setup = "nodir" THEN Outcome(NoPath, fs, 0, "setup", TRUE)
    ELSE IF FileState(fs, p) # "absent" THEN Outcome(p, fs, 0, "exists", FALSE)
    ELSE IF net.setup = "nopage" THEN Outcome(NoPath, fs, 0, "page", FALSE)
    ELSE IF Len(net.imgs) = 0 THEN Outcome(NoPath, fs, 0, "images", FALSE)
    ELSE IF \E i \in 1..Len(net.imgs) : net.imgs[i].fails > 0
    THEN Outcome(NoPath, WriteFile(fs, p, "absent"), 0, "images", FALSE)
    ELSE Outcome(p, WriteFile(fs, p, SizeState(ZipSize(Len(net.imgs), net.len))),
                 Len(net.imgs), "images", FALSE)

\* The adapter call of _download_chapter (gui.py 422-457). The webtoon
\* adapter is called with four arguments and takes three: TypeError, caught
\* at line 477, nothing was touched.
AdapterCall(site, fs, p, net) ==
    CASE site = "asura"   -> asura_download_chapter(fs, p, net)
      [] site = "katana"  -> katana_download_chapter(fs, p, net)
      [] site = "webtoon" -> Outcome(NoPath, fs, 0, "call", TRUE)

\* _download_chapter, lines 459-475: which path it returns after the adapter
DlResult(fs, chapter_path, cbz, site) ==
    IF ArchiveOk(fs, chapter_path) THEN chapter_path
    ELSE IF cbz # NoPath /\ ArchiveOk(fs, cbz) THEN cbz
    ELSE IF site = "katana" /\ ArchiveOk(fs, chapter_path) THEN chapter_path
    ELSE NoPath

\* the check of cancel_requested at the top of _download_chapter, 403-404
DlCancelCheck(name, cancelled) == name \in cancelled

\* _download_chapter as a whole, the adapter meeting `net`: the path it
\* returns, the folder afterwards, and the adapter's outcome when the adapter
\* was called
download_chapter(site, name, ch, fs, cancelled, net) ==
    LET chapter_path == ChapterPath(name, ch)
        o == AdapterCall(site, fs, chapter_path, net)
    IN IF DlCancelCheck(name, cancelled)
       THEN [ret |-> NoPath, files |-> fs, adapter |-> FALSE, out |-> o]
       ELSE IF DlPreCheck(fs, chapter_path)
       THEN [ret |-> chapter_path, files |-> fs, adapter |-> FALSE, out |-> o]
       ELSE [ret |-> IF o.raised THEN NoPath
                     ELSE DlResult(o.files, chapter_path, o.ret, site),
             files |-> o.files, adapter |-> TRUE, out |-> o]

\* _get_chapters (392-399): it raises, or returns a list of n chapters.
\* Only the asura adapter lets an exception out (it catches
\* requests.RequestException alone); the other two return [] on any error.
ResolveOutcomes(site, maxch) ==
    (IF site = "asura" THEN {[raises |-> TRUE, n |-> 0]} ELSE {})
    \cup {[raises |-> FALSE, n |-> k] : k \in 0..maxch}

\* int((idx + 1) / total_chapters * 100), idx counted from 1 here
\* the significand of a double has FloatBits bits
FloatBits == 53

\* the least k >= 1 with i * 2^k >= total: i / total lies in [2^-k, 2^(1-k))
RECURSIVE BinaryExponent(_, _, _)
BinaryExponent(i, total, k) ==
    IF 2 * i >= total THEN k ELSE BinaryExponent(2 * i, total, k + 1)

\* (r * 2^times) % total, sixteen doublings at a time while that many are left
RECURSIVE DoubleMod(_, _, _)
DoubleMod(r, total, times) ==
    IF times = 0 THEN r
    ELSE IF times >= 16 THEN DoubleMod((65536 * r) % total, total, times - 16)
    ELSE DoubleMod((2 * r) % total, total, times - 1)

\* floor(log2(m)) for m >= 1
RECURSIVE Log2(_)
Log2(m) == IF m < 2 THEN 0 ELSE 1 + Log2(m \div 2)

RECURSIVE Pow2(_)
Pow2(n) == IF n = 0 THEN 1 ELSE 2 * Pow2(n - 1)

\* what the rounding of i / total to a double cuts off, in units of
\* 1 / (total * 2^(FloatBits - 1 + k)); 0 when the quotient is exact or is
\* rounded up
RoundedOff(i, total) ==
    LET k == BinaryExponent(i, total, 1)
        r == DoubleMod(i % total, total, FloatBits - 1 + k)
    IN IF 2 * r >= total THEN 0 ELSE r

\* The value is computed in Python floats: i / total rounded to a double,
\* times 100 rounded to a double, truncated. When 100 * i / total is not a
\* whole number the roundings (below 2^-45) cannot carry the product across
\* one; when it is a whole number m, the result is m - 1 exactly when the
\* quotient is rounded down by more than half the gap between m and the
\* double below it.
MangaProgress(i, total) ==
    LET m == (i * 100) \div total
        k == BinaryExponent(i, total, 1)
        t == Log2(m)
        gap == IF Pow2(t) = m THEN t + k - 2 ELSE t + k - 1
    IN IF (i * 100) % total # 0 \/ i = total THEN m
       ELSE IF 100 * RoundedOff(i, total) > total * Pow2(gap) THEN m - 1
       ELSE m

(* ------------------------------------------------------------------ *)
(* The worker thread: _process_queue                                   *)
(* ------------------------------------------------------------------ *)
\* line 244: the queue is found empty
WFindEmpty ==
    /\ wpc = "loop"
    /\ download_queue = <<>>
    /\ wpc' = "shutdown"
    /\ emitted' = <<>>
    /\ UNCHANGED <<qVars, running, flagVars, files, w_task, chapters, idx,
                   successful_chapters, cbz_path, w_how, zombies, ui_pc, envVars,
                   obsVars>>
    /\ UNCHANGED <<histVars, add_ret>>

WShutdownNoBreak ==
    /\ wpc = "shutdown"
    /\ running' = FALSE
    /\ wpc' = "loop"
    /\ zombies' = zombies + 1
    /\ emitted' = <<>>
    /\ UNCHANGED <<qVars, flagVars, files, w_task, chapters, idx,
                   successful_chapters, cbz_path, w_how, ui_pc, envVars, obsVars>>
    /\ UNCHANGED <<histVars, add_ret>>

\* lines 245 and 248: running = False, and the thread leaves the loop; the
\* reset of the display list (246-247) is still to come
WShutdown ==
    /\ wpc = "shutdown"
    /\ running' = FALSE
    /\ wpc' = "dead"
    /\ zombies' = zombies + 1
    /\ emitted' = <<>>
    /\ UNCHANGED <<qVars, flagVars, files, w_task, chapters, idx,
                   successful_chapters, cbz_path, w_how, ui_pc, envVars, obsVars>>
    /\ UNCHANGED <<histVars, add_ret>>

\* lines 246-247, by a thread that has set running = False
WResetList ==
    /\ zombies > 0
    /\ zombies' = zombies - 1
    /\ download_queue_list' = <<>>
    /\ emitted' = <<Ev("queue_updated", "", NoCh, 0)>>
    /\ UNCHANGED <<download_queue, unfinished_tasks, running, flagVars, files,
                   wVars, ui_pc, envVars, obsVars>>
    /\ UNCHANGED <<histVars, add_ret>>

\* the test of paused_downloads on a dequeued Task, line 256
DequeuePauseCheck(name, paused) == name \in paused

\* lines 244, 251-263: the queue is not empty; get the head Task. A paused
\* series is put back at the tail (put, task_done, sleep).
WDequeue ==
    /\ wpc = "loop"
    /\ download_queue # <<>>
    /\ LET t == Head(download_queue)
           name == get_manga_name(t.url, t.site_type)
       IN /\ w_task' = t
          /\ IF DequeuePauseCheck(name, paused_downloads)
             THEN /\ download_queue' = Append(Tail(download_queue), t)
                  /\ unfinished_tasks' = TaskDoneValue(unfinished_tasks + 1)
                  /\ w_how' = "requeued"
                  /\ wpc' = "finally"
                  /\ emitted' = <<>>
             ELSE /\ download_queue' = Tail(download_queue)
                  /\ UNCHANGED unfinished_tasks
                  /\ w_how' = "started"
                  /\ wpc' = "resolve"
                  /\ emitted' = <<Ev("manga_started", name, NoCh, 0)>>
    /\ cancel_at' = NoCancel
    /\ progress_seen' = 0
    /\ UNCHANGED <<download_queue_list, running, flagVars, files, chapters, idx,
                   successful_chapters, cbz_path, zombies, ui_pc, envVars,
                   adapter_calls, owed, last_call>>
    /\ UNCHANGED <<histVars, add_ret>>

\* the chapter list the worker goes on with, lines 272-281
PickChapters(chapter_range, listed) ==
    IF chapter_range # <<>> THEN chapter_range ELSE listed

\* lines 265-292: resolve the chapter list, pick, sort
WResolve(o) ==
    /\ wpc = "resolve"
    /\ IF o.raises
       THEN \* caught at line 354
            /\ emitted' = <<Ev("manga_failed", manga_name, NoCh, 0)>>
            /\ w_how' = "raised"
            /\ wpc' = "finally"
            /\ UNCHANGED <<unfinished_tasks, chapters, idx, successful_chapters>>
       ELSE IF o.n = 0
       THEN \* lines 266-270; a ValueError of task_done is caught at line 354
            /\ emitted' =
                 <<Ev("manga_failed", manga_name, NoCh, 0)>> \o
                 (IF TaskDoneRaises(unfinished_tasks)
                  THEN <<Ev("manga_failed", manga_name, NoCh, 0)>> ELSE <<>>)
            /\ unfinished_tasks' = TaskDoneValue(unfinished_tasks)
            /\ w_how' = "empty"
            /\ wpc' = "finally"
            /\ UNCHANGED <<chapters, idx, successful_chapters>>
       ELSE /\ chapters' = SortChapters(PickChapters(w_task.chapters, Listing(o.n)))
            /\ idx' = 1
            /\ successful_chapters' = 0
            /\ w_how' = "list"
            /\ wpc' = "boundary"
            /\ emitted' = <<>>
            /\ UNCHANGED unfinished_tasks
    /\ UNCHANGED <<download_queue, download_queue_list, running, flagVars, files,
                   w_task, cbz_path, zombies, ui_pc, envVars, obsVars>>
    /\ UNCHANGED <<histVars, add_ret>>

\* the two interrupt tests at the head of the chapter loop, lines 298 and 304
CancelIgnored(name, cancelled) == FALSE
CancelCheck(name, cancelled) == name \in cancelled
PauseCheck(name, paused) == name \in paused

WholeList(chs, i) == chs
\* chapters[idx:], idx counted from 1 here
Remaining(chs, i) == SubSeq(chs, i, Len(chs))

\* lines 294-317 and 329-330: the head of the chapter loop
WBoundary ==
    /\ wpc = "boundary"
    /\ LET ch == chapters[idx]
           chapter_path == ChapterPath(manga_name, ch)
       IN IF idx > Len(chapters)
          THEN /\ wpc' = "aggregate"
               /\ emitted' = <<>>
               /\ UNCHANGED <<qVars, flagVars, idx, successful_chapters, w_how, owed,
                              progress_seen>>
          ELSE IF CancelCheck(manga_name, cancel_requested)
          THEN /\ cancel_requested' = cancel_requested \ {manga_name}
               /\ emitted' = <<Ev("download_cancelled", manga_name, NoCh, 0)>>
               /\ w_how' = "cancelled"
               /\ wpc' = "aggregate"
               /\ UNCHANGED <<qVars, paused_downloads, idx, successful_chapters, owed,
                              progress_seen>>
          ELSE IF PauseCheck(manga_name, paused_downloads)
          THEN /\ download_queue' = Append(download_queue,
                     [w_task EXCEPT !.chapters = Remaining(chapters, idx)])
               /\ unfinished_tasks' = unfinished_tasks + 1
               /\ emitted' = <<Ev("download_paused", manga_name, NoCh, 0)>>
               /\ w_how' = "paused"
               /\ wpc' = "aggregate"
               /\ owed' = owed \cup {ChapterPath(manga_name, chapters[i]) :
                                         i \in idx..Len(chapters)}
               /\ UNCHANGED <<download_queue_list, flagVars, idx, successful_chapters,
                              progress_seen>>
          ELSE IF SkipCheck(files, chapter_path)
          THEN /\ emitted' = <<Ev("chapter_started", manga_name, ch, 0),
                               Ev("chapter_completed", manga_name, ch, 0),
                               Ev("manga_progress", manga_name, NoCh,
                                  MangaProgress(idx, Len(chapters)))>>
               /\ successful_chapters' = successful_chapters + 1
               /\ idx' = idx + 1
               /\ owed' = owed \ {chapter_path}
               /\ progress_seen' = MangaProgress(idx, Len(chapters))
               /\ UNCHANGED <<qVars, flagVars, wpc, w_how>>
          ELSE /\ emitted' = <<Ev("chapter_started", manga_name, ch, 0)>>
               /\ wpc' = "download"
               /\ UNCHANGED <<qVars, flagVars, idx, successful_chapters, w_how, owed,
                              progress_seen>>
    /\ UNCHANGED <<running, files, w_task, chapters, cbz_path, zombies, ui_pc, envVars,
                   adapter_calls, cancel_at, last_call>>
    /\ UNCHANGED <<histVars, add_ret>>

\* what is kept of the network's behaviour in the record of a call: the
\* number of images, how many load at once, how many load after a failed
\* attempt, and whether they are of the larger size
NetSummary(net) ==
    [setup |-> net.setup,
     n     |-> Len(net.imgs),
     first |-> Cardinality({i \in 1..Len(net.imgs) : net.imgs[i].fails = 0}),
     late  |-> Cardinality({i \in 1..Len(net.imgs) :
                              net.imgs[i].fails \in 1..(MaxRetries - 1)}),
     large |-> net.len = LargeImg]

\* the record of an adapter call
CallRecord(caller, site, p, pre, net, o) ==
    [called |-> TRUE, caller |-> caller, site |-> site, path |-> p, pre |-> pre,
     net |-> NetSummary(net), ret |-> o.ret, count |-> o.count, stage |-> o.stage,
     imgs |-> IF o.stage = "images" THEN net.imgs ELSE <<>>,
     tries |-> IF o.stage = "images" THEN ImageTries(site, net.imgs) ELSE <<>>]

\* line 319: the call of _download_chapter, the network behaving as one of nets
WDownload(nets) ==
    /\ wpc = "download"
    /\ \E net \in nets :
          LET p == ChapterPath(manga_name, chapters[idx])
              r == download_chapter(w_task.site_type, manga_name, chapters[idx],
                                    files, cancel_requested, net)
          IN /\ cbz_path' = r.ret
             /\ files' = r.files
             /\ adapter_calls' = adapter_calls + (IF r.adapter THEN 1 ELSE 0)
             /\ last_call' = IF r.adapter
                             THEN CallRecord("gui", w_task.site_type, p,
                                             FileState(files, p), net, r.out)
                             ELSE NoCall
             /\ emitted' = <<Ev("chapter_progress", manga_name, chapters[idx],
                                IF r.ret # NoPath THEN 100 ELSE 0)>>
    /\ wpc' = "verdict"
    /\ UNCHANGED <<qVars, running, flagVars, w_task, chapters, idx,
                   successful_chapters, w_how, zombies, ui_pc, envVars, cancel_at,
                   owed, progress_seen>>
    /\ UNCHANGED <<histVars, add_ret>>

WVerdictAborts ==
    /\ wpc = "verdict"
    /\ IF VerdictCheck(files, cbz_path)
       THEN /\ emitted' = <<Ev("chapter_completed", manga_name, chapters[idx], 0),
                            Ev("manga_progress", manga_name, NoCh,
                               MangaProgress(idx, Len(chapters)))>>
            /\ successful_chapters' = successful_chapters + 1
            /\ idx' = idx + 1
            /\ wpc' = "boundary"
            /\ progress_seen' = MangaProgress(idx, Len(chapters))
       ELSE /\ emitted' = <<Ev("manga_failed", manga_name, NoCh, 0)>>
            /\ wpc' = "finally"
            /\ UNCHANGED <<successful_chapters, idx, progress_seen>>
    /\ owed' = owed \ {ChapterPath(manga_name, chapters[idx])}
    /\ last_call' = NoCall
    /\ UNCHANGED <<qVars, running, flagVars, files, w_task, chapters, cbz_path,
                   w_how, zombies, ui_pc, envVars, adapter_calls, cancel_at>>
    /\ UNCHANGED <<histVars, add_ret>>

\* lines 321-330: completed or failed, then the overall progress
WVerdict ==
    /\ wpc = "verdict"
    /\ IF VerdictCheck(files, cbz_path)
       THEN /\ emitted' = <<Ev("chapter_completed", manga_name, chapters[idx], 0),
                            Ev("manga_progress", manga_name, NoCh,
                               MangaProgress(idx, Len(chapters)))>>
            /\ successful_chapters' = successful_chapters + 1
       ELSE /\ emitted' = <<Ev("chapter_failed", manga_name, chapters[idx], 0),
                            Ev("manga_progress", manga_name, NoCh,
                               MangaProgress(idx, Len(chapters)))>>
            /\ UNCHANGED successful_chapters
    /\ idx' = idx + 1
    /\ wpc' = "boundary"
    /\ owed' = owed \ {ChapterPath(manga_name, chapters[idx])}
    /\ last_call' = NoCall
    /\ progress_seen' = MangaProgress(idx, Len(chapters))
    /\ UNCHANGED <<qVars, running, flagVars, files, w_task, chapters, cbz_path,
                   w_how, zombies, ui_pc, envVars, adapter_calls, cancel_at>>
    /\ UNCHANGED <<histVars, add_ret>>

\* the guard of the aggregate report, lines 341-342
AggregateGuard(name, cancelled, paused) ==
    name \notin cancelled /\ name \notin paused

\* lines 343-352: which aggregate signal is emitted
AggregateEvent(name, ok, total) ==
    IF ok > 0
    THEN IF ok = total THEN Ev("manga_completed", name, NoCh, 0)
         ELSE Ev("manga_completed_partial", name, NoCh, ok)
    ELSE Ev("manga_failed", name, NoCh, 0)

\* lines 341-352, reached when the chapter loop ends or breaks
WAggregate ==
    /\ wpc = "aggregate"
    /\ emitted' =
         IF AggregateGuard(manga_name, cancel_requested, paused_downloads)
         THEN <<AggregateEvent(manga_name, successful_chapters, Len(chapters))>>
         ELSE <<>>
    /\ wpc' = "finally"
    /\ UNCHANGED <<qVars, running, flagVars, files, w_task, chapters, idx,
                   successful_chapters, cbz_path, w_how, zombies, ui_pc, envVars,
                   obsVars>>
    /\ UNCHANGED <<histVars, add_ret>>

\* the finally clause, lines 364-369: whether task_done() is called
FinallyCallsTaskDone(queue_empty, name, paused) ==
    IF ~queue_empty \/ name \in paused
    THEN name \notin paused
    ELSE TRUE

\* lines 364-381: the finally clause; a ValueError of task_done() is caught
\* at line 376: running = False and the thread ends
WFinally ==
    /\ wpc = "finally"
    /\ IF /\ FinallyCallsTaskDone(download_queue = <<>>, manga_name, paused_downloads)
          /\ TaskDoneRaises(unfinished_tasks)
       THEN /\ running' = FALSE
            /\ wpc' = "dead"
            /\ w_how' = "critical"
            /\ emitted' = <<Ev("show_toast", "", NoCh, 0)>>
            /\ UNCHANGED unfinished_tasks
       ELSE /\ unfinished_tasks' =
                 IF FinallyCallsTaskDone(download_queue = <<>>, manga_name,
                                         paused_downloads)
                 THEN TaskDoneValue(unfinished_tasks) ELSE unfinished_tasks
            /\ wpc' = "loop"
            /\ emitted' = <<>>
            /\ UNCHANGED <<running, w_how>>
    /\ UNCHANGED <<download_queue, download_queue_list, flagVars, files, w_task,
                   chapters, idx, successful_chapters, cbz_path, zombies, ui_pc,
                   envVars, obsVars>>
    /\ UNCHANGED <<histVars, add_ret>>

(* ------------------------------------------------------------------ *)
(* The window's slots for the Task-level signals                       *)
(* ------------------------------------------------------------------ *)
\* the string a Task-level signal carries: the series name, or at line 349
\* the series name followed by " (Partial: k/n)"
SignalName(ev) ==
    IF ev.sig = "manga_completed_partial"
    THEN <<ev.name, " (Partial: ", ev.arg>>
    ELSE <<ev.name>>

\* MangaDownloaderApp.manga_status after __init__, line 1322
NoStatus == [k \in {} |-> ""]

\* update_manga_status, lines 2349-2357: the entry of that name is set
update_manga_status(m, name, status) ==
    [k \in DOMAIN m \cup {name} |-> IF k = name THEN status ELSE m[k]]

\* on_manga_started, lines 2303-2305, with add_manga_to_list (2329-2347)
on_manga_started(m, name) == update_manga_status(m, name, "Downloading")
\* on_manga_completed, lines 2307-2309
on_manga_completed(m, name) == update_manga_status(m, name, "Completed")
\* on_manga_failed, lines 2311-2314
on_manga_failed(m, name) == update_manga_status(m, name, "Failed")

\* the slot connected to the signal, lines 1308-1310
Deliver(m, ev) ==
    CASE ev.sig = "manga_started" -> on_manga_started(m, SignalName(ev))
      [] ev.sig \in {"manga_completed", "manga_completed_partial"} ->
            on_manga_completed(m, SignalName(ev))
      [] ev.sig = "manga_failed" -> on_manga_failed(m, SignalName(ev))
      [] OTHER -> m

\* the slots run for a list of signals in the order of emission
RECURSIVE DeliverAll(_, _)
DeliverAll(m, evs) ==
    IF evs = <<>> THEN m ELSE DeliverAll(Deliver(m, Head(evs)), Tail(evs))

(* ------------------------------------------------------------------ *)
(* The command-line downloader: download_chapters of enhanced_dl.py    *)
(* ------------------------------------------------------------------ *)
\* the adapter call of download_chapters, lines 75-80 (the working directory
\* taken to be the download folder)
CliCall(site, fs, p, net) ==
    CASE site = "asura"   -> asura_download_chapter(fs, p, net)
      [] site = "katana"  -> katana_download_chapter(fs, p, net)
      [] site = "webtoon" -> webtoon_download_chapter(fs, p, net)

\* one turn of the loop of download_chapters: the adapter is called
download_chapters(url, ch, net) ==
    LET site == validate_manga_url(url)[2]
        p == ChapterPath(get_manga_name(url, site), ch)
        o == CliCall(site, files, p, net)
    IN /\ validate_manga_url(url)[1]
       /\ ~last_call.called
       /\ files' = o.files
       /\ last_call' = CallRecord("cli", site, p, FileState(files, p), net, o)
       /\ emitted' = <<>>
       /\ UNCHANGED <<qVars, running, flagVars, wVars, zombies, ui_pc, envVars,
                      adapter_calls, cancel_at, owed, progress_seen>>
       /\ UNCHANGED <<histVars, add_ret>>

\* lines 84-86: the path is printed, the turn is over
CliReport ==
    /\ last_call.called /\ last_call.caller = "cli"
    /\ last_call' = NoCall
    /\ emitted' = <<>>
    /\ UNCHANGED <<qVars, running, flagVars, files, wVars, zombies, ui_pc, envVars,
                   adapter_calls, cancel_at, owed, progress_seen>>
    /\ UNCHANGED <<histVars, add_ret>>

(* ------------------------------------------------------------------ *)
(* Specifications                                                      *)
(* ------------------------------------------------------------------ *)
\* the files the outside world touches: archives of listed chapters
ExtPaths == {ChapterPath(n, ChId(i)) : n \in Names, i \in 1..MaxChF}

\* chapter lists a caller hands to add_to_queue: none, or a selection
Selections == {<<>>, <<ChId(2)>>, <<ChId(2), ChId(1)>>}

\* the worker thread, a site listing at most maxch chapters and the network
\* behaving as one of nets at each adapter call
Worker(maxch, nets) ==
    \/ WFindEmpty
    \/ WShutdown
    \/ WResetList
    \/ WDequeue
    \/ \E o \in ResolveOutcomes(w_task.site_type, maxch) : WResolve(o)
    \/ WBoundary
    \/ WDownload(nets)
    \/ WVerdict
    \/ WAggregate
    \/ WFinally

\* The general specification: every command of the UI thread against the
\* worker.
Next ==
    \/ \E url \in Urls, chs \in Selections : nEnq < MaxEnq /\ AddToQueue(url, chs)
    \/ AddToQueueStart
    \/ \E name \in Names : nUi < MaxUi /\ cancel_download(name)
    \/ \E name \in Names : nUi < MaxUi /\ pause_download(name)
    \/ \E name \in Names : nUi < MaxUi /\ resume_download(name)
    \/ Worker(MaxCh, NetsBasic)

Spec == Init /\ [][Next]_vars

\* The queue and the worker's life cycle: enqueue, pause and resume, each
\* site listing at most one chapter.
NextQueue ==
    \/ \E url \in Urls : nEnq < MaxEnqQ /\ AddToQueue(url, <<>>)
    \/ AddToQueueStart
    \/ \E name \in Names : nUi < MaxUiQ /\ pause_download(name)
    \/ \E name \in Names : nUi < MaxUiQ /\ resume_download(name)
    \/ Worker(MaxChQ, NetsBasic)

\* the download folder starts empty
InitQueue == Init /\ files = NoFiles

SpecQueue == InitQueue /\ [][NextQueue]_vars

\* The download folder shared with the outside world: Tasks for every site
\* while files appear and disappear.
NextFiles ==
    \/ \E url \in Urls : nEnq < MaxEnqF /\ AddToQueue(url, <<>>)
    \/ AddToQueueStart
    \/ \E p \in ExtPaths, st \in FileStates : nExt < MaxExt /\ ExternalWrite(p, st)
    \/ Worker(MaxChF, NetsBasic)

SpecFiles == Init /\ [][NextFiles]_vars

\* The order of processing: one Task with a hand-picked chapter list, the ids
\* numeric, fractional or not numeric, in any order.
SortIds == {ChId(1), ChId(2), IdOneHalf, IdTen, IdX, IdA}
SortInputs == UNION {[1..n -> SortIds] : n \in 1..MaxLen}

NextSort ==
    \/ nEnq < MaxEnqC /\ \E url \in Urls, chs \in SortInputs : AddToQueue(url, chs)
    \/ AddToQueueStart
    \/ Worker(MaxChQ, NetsBasic)

SpecSort == InitQueue /\ [][NextSort]_vars

\* The archivers, one call at a time: the command-line downloader, run
\* before the window is given its Tasks, and then the worker, each adapter
\* call meeting any behaviour of the network.
CliPending == last_call.called /\ last_call.caller = "cli"

NextArchive ==
    \/ ~CliPending /\ \E url \in Urls : nEnq < MaxEnqC /\ AddToQueue(url, <<>>)
    \/ ~CliPending /\ AddToQueueStart
    \/ ~CliPending /\ Worker(MaxChQ, Nets)
    \/ wpc = "dead" /\ ui_pc = "idle" /\ nEnq = 0
          /\ \E url \in Urls, net \in Nets : download_chapters(url, ChId(1), net)
    \/ CliReport

SpecArchive == Init /\ [][NextArchive]_vars

\* Cancelling against the worker.
NextCancel ==
    \/ \E url \in Urls : nEnq < MaxEnqC /\ AddToQueue(url, <<>>)
    \/ AddToQueueStart
    \/ \E name \in Names : nUi < MaxUiC /\ cancel_download(name)
    \/ Worker(MaxCh, NetsBasic)

SpecCancel == Init /\ [][NextCancel]_vars

\* Pausing and resuming against the worker.
NextPause ==
    \/ \E url \in Urls : nEnq < MaxEnqC /\ AddToQueue(url, <<>>)
    \/ AddToQueueStart
    \/ \E name \in Names : nUi < MaxUiP /\ pause_download(name)
    \/ \E name \in Names : nUi < MaxUiP /\ resume_download(name)
    \/ Worker(MaxCh, NetsBasic)

SpecPause == Init /\ [][NextPause]_vars

\* The overall progress of a pass: one Task of a series with up to MaxChP
\* chapters, every image loading.
NetsOk == {[setup |-> "ok", imgs |-> <<[fails |-> 0]>>, len |-> LargeImg]}

NextProgress ==
    \/ \E url \in Urls : nEnq < MaxEnqC /\ AddToQueue(url, <<>>)
    \/ AddToQueueStart
    \/ Worker(MaxChP, NetsOk)

SpecProgress == Init /\ [][NextProgress]_vars

\* Enqueueing against the worker's start-up and shutdown: add_to_queue with
\* every URL, valid or not, with and without a chapter selection.
NextEnqueue ==
    \/ \E url \in Urls, chs \in Selections : nEnq < MaxEnqE /\ AddToQueue(url, chs)
    \/ AddToQueueStart
    \/ Worker(MaxChQ, NetsBasic)

SpecEnqueue == InitQueue /\ [][NextEnqueue]_vars

\* The history store on its own: the window's calls of the history
\* operations and of the scan for new chapters, from any history file found at
\* start-up, and the program started again.
StoredIds == {ChId(1), IdOneHalf}
StoredMaps ==
    {EmptyMap,
     AddChapter(AddManga(EmptyMap, "A", "asura:a", "asura"), "A", ChId(1), "asura")}
HistoryFiles ==
    {NoHistoryFile, UnreadableFile, NonDictFile} \cup {DictFile(m) : m \in StoredMaps}

InitStore ==
    /\ InitManager
    /\ files = NoFiles
    /\ \E file \in HistoryFiles, rename_ok \in BOOLEAN : InitHistory(file, rename_ok)

\* the site type on record for a series, as on_chapter_completed reads it
\* (gui.py 2228-2229)
StoredSite(name) ==
    IF history.isdict /\ name \in DOMAIN history.map
    THEN history.map[name].site_type ELSE ""

NextHistory ==
    \/ \E url \in Urls : /\ validate_manga_url(url)[1]
                         /\ add_manga(get_manga_name(url, validate_manga_url(url)[2]),
                                      url, validate_manga_url(url)[2])
    \/ \E name \in Names : add_manga(name, "", "unknown")
    \/ \E name \in Names, ch \in StoredIds :
          add_downloaded_chapter(name, ch, StoredSite(name))
    \/ \E name \in Names : delete_manga(name)
    \/ get_manga_list
    \/ \E name \in Names : get_manga_data(name)
    \/ \E name \in Names \cup {""} :
          \E lv \in [Scanned(history.map, name) -> LiveOutcomes] :
             scan_for_new_chapters(name, lv)
    \/ \E name \in Names, out \in LiveOutcomes : check_for_updates(name, out)
    \/ \E rename_ok \in BOOLEAN : Restart(rename_ok)

SpecHistory == InitStore /\ [][NextHistory]_vars

(* ------------------------------------------------------------------ *)
(* Claims about the queue and the worker's life cycle (SpecQueue)      *)
(* ------------------------------------------------------------------ *)
\* the worker is at its finally clause after chapter-list resolution raised
AfterResolveRaised == wpc = "finally" /\ w_how = "raised"

\* the worker is at its finally clause after an empty chapter list
AfterNoChapters == wpc = "finally" /\ w_how = "empty"

\* C1: when chapter-list resolution raised for the dequeued Task and other
\* Tasks are queued behind it, the worker reports that Task failed and goes
\* back to the head of its loop to dequeue the next Task: it never ends with
\* Tasks left in the queue.
C1_QueueSurvivesTaskFailure ==
    [][(AfterResolveRaised /\ download_queue # <<>> /\ wpc' # wpc)
          => wpc' = "loop"]_vars

\* C2: a Task whose chapter list comes back empty is reported failed exactly
\* once, and the worker then returns to the head of its loop: it neither
\* raises nor takes the critical-error exit.
C2_NoChaptersNonFatal ==
    [][/\ (wpc = "resolve" /\ wpc' = "finally" /\ w_how' = "empty")
            => emitted' = <<Ev("manga_failed", manga_name, NoCh, 0)>>
       /\ (AfterNoChapters /\ wpc' # wpc) => wpc' = "loop"]_vars

\* C3: no state has a Task waiting in the queue while no worker is in the
\* loop, running is False and no add_to_queue call is under way (the worker
\* having ended through its drained-queue shutdown).
C3_EnqueueRestartsWorker ==
    ~(/\ download_queue # <<>>
      /\ wpc = "dead"
      /\ ~running
      /\ ui_pc = "idle"
      /\ w_how # "critical")

\* the worker stands at chapter idx of its list and is neither cancelled nor
\* paused: it reaches the chapter
ReachesChapter ==
    /\ wpc = "boundary"
    /\ idx <= Len(chapters)
    /\ ~CancelCheck(manga_name, cancel_requested)
    /\ ~PauseCheck(manga_name, paused_downloads)

\* a step of the worker inside the chapter loop
LoopStep == wpc' # wpc \/ idx' # idx

\* C4: when the worker reaches a chapter whose archive exists with non-zero
\* size, its next step reports the chapter completed, counts it as succeeded
\* and moves to the next chapter, and no site adapter is called and no file is
\* touched.
C4_IdempotentSkip ==
    [][(/\ ReachesChapter
        /\ ArchiveOk(files, ChapterPath(manga_name, chapters[idx]))
        /\ LoopStep)
          => /\ \E i \in DOMAIN emitted' :
                  emitted'[i] = Ev("chapter_completed", manga_name, chapters[idx], 0)
             /\ \A i \in DOMAIN emitted' : emitted'[i].sig # "chapter_failed"
             /\ successful_chapters' = successful_chapters + 1
             /\ idx' = idx + 1
             /\ wpc' = "boundary"
             /\ adapter_calls' = adapter_calls
             /\ files' = files]_vars

\* a chapter was skipped: reported completed over an archive found in the
\* folder, no site adapter having been called
C4_Witness ==
    /\ Len(emitted) = 3
    /\ emitted[1].sig = "chapter_started"
    /\ emitted[2].sig = "chapter_completed"
    /\ successful_chapters = 1
    /\ adapter_calls = 0
    /\ FileState(files, ChapterPath(emitted[2].name, emitted[2].ch)) = "full"

\* C8: chapter_completed is emitted, and the success count incremented, only
\* in a step at which the chapter's archive exists with size greater than
\* zero, on the skip path and on the download path, whatever the outside
\* world did to the folder between the worker's steps.
C8_CompletedOnlyIfArchive ==
    [][/\ \A i \in DOMAIN emitted' :
             emitted'[i].sig = "chapter_completed"
               => /\ wpc \in {"boundary", "verdict"}
                  /\ emitted'[i].name = manga_name
                  /\ emitted'[i].ch = chapters[idx]
                  /\ ArchiveOk(files, ChapterPath(manga_name, chapters[idx]))
                  /\ files' = files
                  /\ successful_chapters' = successful_chapters + 1
       /\ successful_chapters' > successful_chapters
             => /\ wpc \in {"boundary", "verdict"}
                /\ ArchiveOk(files, ChapterPath(manga_name, chapters[idx]))
                /\ \E i \in DOMAIN emitted' : emitted'[i].sig = "chapter_completed"]_vars

\* a chapter completed on the download path after the outside world had
\* written to the folder
C8_Witness ==
    /\ Len(emitted) = 2
    /\ emitted[1].sig = "chapter_completed"
    /\ adapter_calls > 0
    /\ nExt > 0
    /\ FileState(files, ChapterPath(emitted[1].name, emitted[1].ch)) = "full"

\* C5: once cancel_download(S) was called with k >= 1 chapters of the Task of
\* S in hand done, the pass ends with exactly those k chapters given a terminal
\* status: the worker gets no further than chapter k+1's boundary, and no site
\* adapter is called (no archive written) after the cancel call.
C5_CancellationBoundary ==
    (cancel_at.set /\ cancel_at.done >= 1)
        => /\ idx - 1 = cancel_at.done
           /\ adapter_calls = cancel_at.calls

\* C6: a Task paused after chapter k and resumed ends with the statuses of an
\* uninterrupted run: once the series is resumed, nothing is left in the queue
\* and the worker has finished, every chapter the pause put back has been given
\* its Completed or Failed status, as it would have been without the pause.
C6_PauseResumeRoundTrip ==
    (download_queue = <<>> /\ wpc = "dead" /\ paused_downloads = {})
        => owed = {}

\* the order the claim gives two ids: by numeric value when both are numeric,
\* by raw string when neither is
ClaimedBefore(a, b) ==
    IF IsNumericId(a) /\ IsNumericId(b) THEN FloatLess(FloatOf(a), FloatOf(b))
    ELSE IF ~IsNumericId(a) /\ ~IsNumericId(b) THEN StrLess(a, b)
    ELSE FALSE

\* C7: the list the worker walks through, chapter by chapter, is in ascending
\* order whatever order the Task supplied: no id comes after one that the
\* claimed order puts behind it (numeric ids by value, the others by string).
C7_Ordering ==
    wpc \in {"boundary", "download", "verdict"}
        => \A i, j \in 1..Len(chapters) :
              i < j => ~ClaimedBefore(chapters[j], chapters[i])

\* some of the images load at once, the others fail at every attempt (the
\* images of ordinary size); net is the summary kept in the call record
PartialSuccess(net) ==
    /\ net.setup = "ok"
    /\ net.large
    /\ net.late = 0
    /\ 0 < net.first /\ net.first < net.n

\* the page has no image, or every image fails at every attempt
ZeroSuccess(net) ==
    /\ net.setup = "ok"
    /\ net.first = 0 /\ net.late = 0

\* this step is an adapter call
AdapterCalled == last_call'.called /\ last_call' # last_call

\* the worker is about to judge the chapter its adapter call was for
WorkerJudges == wpc = "verdict" /\ wpc' # wpc /\ last_call.called /\ last_call.caller = "gui"

\* C9: an adapter call that finds no archive and fetches M of the N images,
\* 0 < M < N, returns the chapter's path with the archive there holding the M
\* images, whichever the site; and the worker then reports the chapter
\* completed and counts it as succeeded.
C9_PartialTolerance ==
    [][/\ (AdapterCalled /\ PartialSuccess(last_call'.net) /\ last_call'.pre # "full")
            => /\ last_call'.ret = last_call'.path
               /\ FileState(files', last_call'.path) = "full"
               /\ last_call'.count = last_call'.net.first
       /\ (WorkerJudges /\ PartialSuccess(last_call.net))
            => /\ \E i \in DOMAIN emitted' : emitted'[i].sig = "chapter_completed"
               /\ successful_chapters' = successful_chapters + 1]_vars

HistoryCall(op) == h_ret' # h_ret /\ h_ret'.op = op

\* what a scan returned for series S: no key stands for no new chapter
NewOf(ret, S) == IF S \in DOMAIN ret.new THEN ret.new[S] ELSE <<>>

\* the chapters of `list` whose id is not in `known`, in the order of the list
AbsentFrom(list, known) == SelectSeq(list, LAMBDA c : c \notin known)

\* C11: a scan for new chapters of a series S stored with URL and site type
\* returns, for S and for nothing else, exactly the chapters its site lists
\* whose id is not among the stored chapters of S, in the order listed; a scan
\* of all series does so for each; check_for_updates returns the same list for
\* the chapters it is handed; and neither changes the history or its file.
C11_UpdateDiffing ==
    [][/\ HistoryCall("scan_for_new_chapters") =>
            /\ history' = history /\ history_file' = history_file
            /\ \A S \in DOMAIN h_ret'.live :
                  ~h_ret'.live[S].raises =>
                     NewOf(h_ret', S) =
                        AbsentFrom(h_ret'.live[S].list, history.map[S].chapters)
            /\ \A S \in Names :
                  (/\ h_ret'.name = S
                   /\ history.isdict /\ S \in DOMAIN history.map
                   /\ HasSource(history.map[S]))
                  => /\ ~h_ret'.raised
                     /\ S \in DOMAIN h_ret'.live
                     /\ DOMAIN h_ret'.new \subseteq {S}
       /\ HistoryCall("check_for_updates") =>
            /\ history' = history /\ history_file' = history_file
            /\ \A S \in DOMAIN h_ret'.live :
                  ~h_ret'.live[S].raises =>
                     NewOf(h_ret', S) =
                        AbsentFrom(h_ret'.live[S].list, history.map[S].chapters)]_vars

\* series A, one chapter stored, was scanned while its site listed three
\* chapters: the scan returned the two that are new
C11_Witness ==
    /\ h_ret.op = "scan_for_new_chapters" /\ h_ret.name = "A"
    /\ "A" \in DOMAIN h_ret.live
    /\ Len(h_ret.live["A"].list) = 3
    /\ history.map["A"].chapters # {}
    /\ Len(NewOf(h_ret, "A")) = 2

(* ------------------------------------------------------------------ *)
(* Claims about enqueueing (SpecEnqueue)                               *)
(* ------------------------------------------------------------------ *)
\* the URL is of none of the three sites
MatchesNoPattern(url) == url \notin {"asura:a", "katana:b", "webtoon:b"}

\* this step is the first step of a call of add_to_queue
AddCalled == ui_pc = "idle" /\ nEnq' = nEnq + 1

\* C12: a call of add_to_queue with a URL that matches no site pattern is
\* over in one step and returns False; the queue, its count of unfinished
\* Tasks and the display list are as before, and no worker thread is started.
C12_InvalidSeriesUrl ==
    [][(AddCalled /\ MatchesNoPattern(add_ret'.url))
          => /\ add_ret'.ret = "False"
             /\ ui_pc' = "idle"
             /\ download_queue' = download_queue
             /\ unfinished_tasks' = unfinished_tasks
             /\ download_queue_list' = download_queue_list
             /\ running' = running
             /\ wpc' = wpc]_vars

\* add_to_queue has returned False for the URL of no site, after the worker
\* of an earlier Task had shut down: no worker is alive
C12_Witness ==
    /\ add_ret = [url |-> "bad", ret |-> "False"]
    /\ ui_pc = "idle"
    /\ wpc = "dead" /\ ~running
    /\ adapter_calls > 0

(* ------------------------------------------------------------------ *)
(* Claims about loading the history (SpecHistory)                      *)
(* ------------------------------------------------------------------ *)
\* the operations of the history a caller uses after the load
HistoryOps ==
    {"add_manga", "add_downloaded_chapter", "get_manga_list", "get_manga_data",
     "delete_manga"}

\* C13: after a load that found the history file absent, unreadable or not
\* a mapping, the history is an empty mapping; and no call of add_manga,
\* add_downloaded_chapter, get_manga_list, get_manga_data or delete_manga
\* raises, whatever file the load found.
C13_HistoryLoadStartsEmpty ==
    /\ (h_ret.op = "load" /\ h_ret.name \in {"absent", "unreadable", "nondict"})
          => history = DictHistory(EmptyMap)
    /\ h_ret.op \in HistoryOps => ~h_ret.raised

\* this step is the call of start_download_thread by add_to_queue
ThreadStarted == ui_pc = "add_test" /\ ui_pc' = "idle" /\ ~running

C15_ProgressMonotone ==
    [][\A i \in DOMAIN emitted' :
          emitted'[i].sig = "manga_progress"
            => /\ emitted'[i].arg = (100 * idx) \div Len(chapters)
               /\ emitted'[i].arg \in 0..100
               /\ emitted'[i].arg >= progress_seen]_vars

\* One Task at a time with no cancel, pause or resume call: each pass runs to
\* the end of its chapter list, with chapters that load and chapters that fail.
NextAggregate ==
    \/ \E url \in Urls : nEnq < MaxEnqC /\ AddToQueue(url, <<>>)
    \/ AddToQueueStart
    \/ Worker(MaxCh, NetsBasic)

SpecAggregate == Init /\ [][NextAggregate]_vars

\* A paused Task at the head of the queue: series A is paused and resumed
\* while Tasks of A wait, and the last call of add_to_queue may be for series
\* B, so that at most one Task of B is ever queued; every site lists its
\* chapters and every image loads. The worker thread, once started, keeps
\* running: each of its steps (the sleep of line 260 included) ends.
YieldUrls(n) == IF n = MaxEnqY - 1 THEN {"asura:a", "katana:b"} ELSE {"asura:a"}
YieldPaused == {"A"}

YieldWorker ==
    \/ WFindEmpty
    \/ WShutdown
    \/ WResetList
    \/ WDequeue
    \/ WResolve([raises |-> FALSE, n |-> MaxChY])
    \/ WBoundary
    \/ WDownload(NetsOk)
    \/ WVerdict
    \/ WAggregate
    \/ WFinally

NextYield ==
    \/ \E url \in YieldUrls(nEnq) : nEnq < MaxEnqY /\ AddToQueue(url, <<>>)
    \/ AddToQueueStart
    \/ \E name \in YieldPaused : nUi < MaxUiY /\ pause_download(name)
    \/ \E name \in YieldPaused : nUi < MaxUiY /\ resume_download(name)
    \/ YieldWorker

SpecYield == InitQueue /\ [][NextYield]_vars /\ WF_vars(YieldWorker)

(* ------------------------------------------------------------------ *)
(* Claims about cancel at a chapter boundary (SpecCancel)              *)
(* ------------------------------------------------------------------ *)
\* the worker stands before a chapter of its list with its series in
\* cancel_requested, and takes its step
FindsCancelled ==
    /\ wpc = "boundary" /\ idx <= Len(chapters)
    /\ manga_name \in cancel_requested
    /\ LoopStep

\* C16: the worker's step before a chapter, with its series in
\* cancel_requested, ends the chapter loop: it emits download_cancelled for the
\* series and nothing about a chapter, takes the series out of
\* cancel_requested, puts nothing in the queue, calls no adapter and touches
\* no file; and the chapters left are not processed in the rest of the pass.
C16_CancelAtBoundary ==
    [][/\ FindsCancelled
            => /\ emitted' = <<Ev("download_cancelled", manga_name, NoCh, 0)>>
               /\ cancel_requested' = cancel_requested \ {manga_name}
               /\ download_queue' = download_queue
               /\ unfinished_tasks' = unfinished_tasks
               /\ wpc' = "aggregate"
               /\ idx' = idx /\ successful_chapters' = successful_chapters
               /\ adapter_calls' = adapter_calls
               /\ files' = files
       /\ w_how = "cancelled"
            => wpc \notin {"boundary", "download", "verdict"}]_vars

\* the worker has stopped on a cancel request with one chapter of two done
C16_Witness ==
    /\ w_how = "cancelled"
    /\ wpc = "aggregate"
    /\ idx = 2 /\ Len(chapters) = 2
    /\ manga_name \notin cancel_requested

(* ------------------------------------------------------------------ *)
(* Claims about the outcome of a pass (SpecCancel, SpecPause)          *)
(* ------------------------------------------------------------------ *)
\* the signals that report a whole Task: lines 346, 349 and 352
AggregateSignals == {"manga_completed", "manga_completed_partial", "manga_failed"}

\* the worker's step after a chapter loop that a cancel or a pause request
\* has broken
AfterInterruption ==
    /\ wpc = "aggregate"
    /\ w_how \in {"cancelled", "paused"}
    /\ LoopStep

\* C17: a pass that a cancel request or a pause request has interrupted
\* emits no manga_completed and no manga_failed: the step after the broken
\* chapter loop emits nothing.
C17_OneOutcomePerPass ==
    [][AfterInterruption
          => \A i \in 1..Len(emitted') : emitted'[i].sig \notin AggregateSignals]_vars

\* the worker stands before a chapter of its list with its series paused and
\* not cancelled, and takes its step
FindsPaused ==
    /\ wpc = "boundary" /\ idx <= Len(chapters)
    /\ manga_name \notin cancel_requested
    /\ manga_name \in paused_downloads
    /\ LoopStep

\* the chapters of the list from position i on, in order
From(i) == [j \in 1..(Len(chapters) - i + 1) |-> chapters[i + j - 1]]

\* C18: the worker's step before the chapter at position idx, with its series
\* paused, ends the chapter loop: it appends to the queue one Task of the same
\* URL and site holding exactly the chapters from idx on, in order, and emits
\* download_paused; the chapters before idx are not in the new Task, their
\* files and the success count stay as they are, and no adapter is called.
C18_PauseSplitsTask ==
    [][FindsPaused
          => /\ download_queue' =
                  Append(download_queue,
                         [url |-> w_task.url, site_type |-> w_task.site_type,
                          chapters |-> From(idx)])
             /\ SubSeq(chapters, 1, idx - 1) \o From(idx) = chapters
             /\ \A i \in 1..(idx - 1), j \in 1..Len(From(idx)) :
                    chapters[i] # From(idx)[j]
             /\ emitted' = <<Ev("download_paused", manga_name, NoCh, 0)>>
             /\ wpc' = "aggregate"
             /\ idx' = idx /\ successful_chapters' = successful_chapters
             /\ files' = files
             /\ adapter_calls' = adapter_calls
             /\ paused_downloads' = paused_downloads]_vars

\* the worker has stopped on a pause request with one chapter of two done, and
\* the Task at the tail holds the second chapter alone
C18_Witness ==
    /\ w_how = "paused"
    /\ wpc = "aggregate"
    /\ idx = 2 /\ Len(chapters) = 2
    /\ successful_chapters = 1
    /\ download_queue # <<>>
    /\ download_queue[Len(download_queue)].chapters = <<chapters[2]>>

(* ------------------------------------------------------------------ *)
(* Claims about a paused Task at the head of the queue (SpecYield)     *)
(* ------------------------------------------------------------------ *)
\* a Task of the series waits in the queue
QueuedTaskOf(name) ==
    \E i \in 1..Len(download_queue) :
        get_manga_name(download_queue[i].url, download_queue[i].site_type) = name

\* the worker has just put the dequeued Task of a paused series back at the
\* tail, behind the waiting Task of B, a series that is never paused
YieldsToB ==
    /\ wpc = "finally" /\ w_how = "requeued"
    /\ download_queue # <<>>
    /\ download_queue[Len(download_queue)] = w_task
    /\ manga_name # "B"
    /\ QueuedTaskOf("B")

\* C19: once the worker has put the dequeued Task of a paused series back at
\* the tail while a Task of a non-paused series waited behind it, the worker
\* eventually takes the Task of that other series out of the queue to process
\* it.
C19_PausedHeadYields == YieldsToB ~> ~QueuedTaskOf("B")

(* ------------------------------------------------------------------ *)
(* Claims about the outcome of a whole pass (SpecAggregate)            *)
(* ------------------------------------------------------------------ *)
\* the worker's step after a chapter loop that has handled every chapter of
\* the list, with the series neither cancelled nor paused
AfterExhausted ==
    /\ wpc = "aggregate"
    /\ w_how \notin {"cancelled", "paused"}
    /\ Len(chapters) > 0 /\ idx > Len(chapters)
    /\ manga_name \notin cancel_requested \cup paused_downloads
    /\ LoopStep

\* the status the series should end with, by the count of succeeded chapters
TerminalStatus(ok, total) ==
    IF ok = total THEN "Completed"
    ELSE IF ok > 0 THEN "PartiallyCompleted"
    ELSE "Failed"

\* the status the window holds for the series once the signals of the step
\* have reached their slots, the series being shown as Downloading before
StatusShown(evs) ==
    DeliverAll(on_manga_started(NoStatus, <<manga_name>>), evs)[<<manga_name>>]

\* C20: after a pass that has handled all N chapters of its Task with no
\* cancel and no pause, the series ends Completed when all N succeeded,
\* PartiallyCompleted when between 1 and N-1 succeeded, and Failed when none
\* did.
C20_TerminalAggregation ==
    [][AfterExhausted
          => StatusShown(emitted') =
                 TerminalStatus(successful_chapters, Len(chapters))]_vars

(* ------------------------------------------------------------------ *)
(* Claims about a chapter that fails (SpecAggregate)                   *)
(* ------------------------------------------------------------------ *)
\* _download_chapter has returned for the chapter at idx without an archive
\* at the path it returned (it raised inside, or the adapter gave nothing),
\* and the worker takes its step
ChapterGaveNoArchive ==
    /\ wpc = "verdict"
    /\ cbz_path = NoPath \/ FileState(files, cbz_path) # "full"
    /\ LoopStep

\* the terminal statuses of the chapter ch among the signals evs
StatusesOf(evs, ch) ==
    {i \in 1..Len(evs) :
        evs[i].sig \in {"chapter_completed", "chapter_failed"} /\ evs[i].ch = ch}

\* C21: a chapter whose download gave no archive is reported failed, the
\* overall progress is emitted, the success count stays, and the worker goes
\* on to the next chapter in the same pass; every step that leaves a chapter
\* behind emits exactly one terminal status, for that chapter, no other step
\* of the chapter loop emits one, and without cancel or pause the pass ends
\* only after the last chapter.
C21_ChapterFailureIsLocal ==
    [][/\ ChapterGaveNoArchive
            => /\ emitted' = <<Ev("chapter_failed", manga_name, chapters[idx], 0),
                               Ev("manga_progress", manga_name, NoCh,
                                  MangaProgress(idx, Len(chapters)))>>
               /\ idx' = idx + 1
               /\ wpc' = "boundary"
               /\ successful_chapters' = successful_chapters
               /\ w_how' = w_how
               /\ qVars' = qVars
       /\ wpc \in {"boundary", "download", "verdict"} /\ LoopStep
            => /\ idx' \in {idx, idx + 1}
               /\ idx' = idx + 1
                    => /\ Cardinality(StatusesOf(emitted', chapters[idx])) = 1
                       /\ \A i \in 1..Len(emitted') :
                             emitted'[i].ch \in {NoCh, chapters[idx]}
               /\ idx' = idx
                    => \A i \in 1..Len(emitted') :
                          emitted'[i].sig \notin {"chapter_completed", "chapter_failed"}
               /\ wpc' \in {"boundary", "download", "verdict"}
                    \/ (wpc' = "aggregate" /\ idx = Len(chapters) + 1)]_vars

\* the first of two chapters has failed and the worker is downloading the
\* second
C21_Witness ==
    /\ wpc = "download"
    /\ Len(chapters) = 2 /\ idx = 2
    /\ successful_chapters = 0
    /\ progress_seen = 50

(* ------------------------------------------------------------------ *)
(* Claims about a Task that brings its chapter list (SpecEnqueue)      *)
(* ------------------------------------------------------------------ *)
\* the worker has dequeued a Task that brings a chapter list, and takes the
\* step that settles the list of the pass
ResolvesPreSupplied ==
    /\ wpc = "resolve"
    /\ w_task.chapters # <<>>
    /\ wpc' # wpc

\* the entries of a list
Entries(l) == {l[i] : i \in 1..Len(l)}

\* C22: for a Task enqueued with a non-empty chapter list the worker goes on
\* to the chapter loop with exactly the chapters of that list, whatever the
\* site answers to the request for the series' chapter list.
C22_PreSuppliedListUsed ==
    [][ResolvesPreSupplied
          => /\ wpc' = "boundary"
             /\ Len(chapters') = Len(w_task.chapters)
             /\ Entries(chapters') = Entries(w_task.chapters)]_vars

(* ------------------------------------------------------------------ *)
(* Claims about the records of the history (SpecHistory)               *)
(* ------------------------------------------------------------------ *)
\* C23: every series on record in the history has a non-empty URL and the
\* site type of one of the three sites, after any sequence of add_manga at
\* enqueue, recorded chapters, scans for external chapters and delete_manga.
C23_SeriesHaveSource ==
    history.isdict =>
       \A S \in DOMAIN history.map :
          /\ history.map[S].url # ""
          /\ history.map[S].site_type \in Sites

(* ------------------------------------------------------------------ *)
(* Claims about the order of service (SpecYield)                       *)
(* ------------------------------------------------------------------ *)
\* the worker starts a Task of series `name`: lines 251-263, not put back
StartsTaskOf(name) == wpc = "loop" /\ wpc' = "resolve" /\ manga_name' = name

\* a Task of series `name` as add_to_queue put it (no chapter list) waits
AcceptedTaskWaits(name) ==
    \E i \in 1..Len(download_queue) :
        /\ get_manga_name(download_queue[i].url, download_queue[i].site_type) = name
        /\ download_queue[i].chapters = <<>>

\* C24: Tasks whose series is not paused are started in the order in which
\* add_to_queue accepted them. Every Task of series A is accepted before the
\* Task of series B: the worker never starts the Task of B while a Task of A
\* that add_to_queue accepted waits and A is not paused.
C24_FifoService ==
    [][StartsTaskOf("B")
          => ~(AcceptedTaskWaits("A") /\ "A" \notin paused_downloads)]_vars

(* ------------------------------------------------------------------ *)
(* Claims about the image loop of the archivers (SpecArchive)          *)
(* ------------------------------------------------------------------ *)
\* an archiver has gone through the images of a chapter page
ImagesFetched == last_call.called /\ last_call.stage = "images"

RECURSIVE SumTries(_, _)
SumTries(t, n) == IF n = 0 THEN 0 ELSE t[n] + SumTries(t, n - 1)

\* C25: an archiver that has gone through a page of N images made, for each
\* image, at most 3 requests: one more than the failures before the first
\* success, or 3 when the image never loads, and then went on to the next
\* image; the archive it returns holds every image that loaded within 3
\* requests, and it made at most 3*N requests in all.
C25_BoundedImageRetry ==
    ImagesFetched =>
       LET N == Len(last_call.imgs)
       IN /\ Len(last_call.tries) = N
          /\ \A i \in 1..N :
                last_call.tries[i] =
                   IF last_call.imgs[i].fails < 3 THEN last_call.imgs[i].fails + 1 ELSE 3
          /\ last_call.ret # NoPath =>
                last_call.count =
                   Cardinality({i \in 1..N : last_call.imgs[i].fails < 3})
          /\ SumTries(last_call.tries, N) <= 3 * N

(* ------------------------------------------------------------------ *)
(* Claims about the path of the archive (SpecArchive)                  *)
(* ------------------------------------------------------------------ *)
\* the chapter page loads and every one of its images loads at the first
\* request; the images are of the larger size
AllFetched(net) == net.setup = "ok" /\ net.n >= 1 /\ net.first = net.n /\ net.large

\* this step is the worker's call of a site adapter
WorkerCallsAdapter == AdapterCalled /\ last_call'.caller = "gui"

\* C26: for each of the three site types, a call of the site adapter by the
\* worker whose fetches all succeed writes the archive at the path the worker
\* checks for the chapter, {download_root}/{series_name}/Chapter {id}.cbz, and
\* hands that path back; and the worker then reports the chapter completed.
C26_ArchivePathAgreement ==
    [][/\ (WorkerCallsAdapter /\ AllFetched(last_call'.net))
            => /\ last_call'.path = ChapterPath(manga_name, chapters[idx])
               /\ FileState(files', ChapterPath(manga_name, chapters[idx])) = "full"
               /\ cbz_path' = ChapterPath(manga_name, chapters[idx])
       /\ (WorkerJudges /\ AllFetched(last_call.net))
            => /\ \E i \in DOMAIN emitted' :
                    emitted'[i] = Ev("chapter_completed", manga_name, chapters[idx], 0)
               /\ successful_chapters' = successful_chapters + 1]_vars

(* ------------------------------------------------------------------ *)
(* Claims about the cancel flag (SpecCancel)                           *)
(* ------------------------------------------------------------------ *)
\* the worker holds a Task of series `name`: dequeued, its pass not over
ProcessedTaskOf(name) ==
    /\ wpc \in {"resolve", "boundary", "download", "verdict", "aggregate", "finally"}
    /\ manga_name = name

\* C27: a series is in cancel_requested only while a Task of it waits in the
\* queue or is in the worker's hands, so that no flag is left for a Task of
\* the series that is enqueued later.
C27_NoStaleCancelFlag ==
    \A S \in cancel_requested : QueuedTaskOf(S) \/ ProcessedTaskOf(S)

(* ------------------------------------------------------------------ *)
(* Claims about cancelling a paused series (SpecCancelPaused)          *)
(* ------------------------------------------------------------------ *)
\* Cancelling and pausing against the worker, no series ever resumed; every
\* site lists its chapters and every image loads. A call of add_to_queue
\* runs to its end, and the worker thread, once started, keeps running.
NextCancelPaused ==
    \/ \E url \in Urls : nEnq < MaxEnqC /\ AddToQueue(url, <<>>)
    \/ AddToQueueStart
    \/ \E name \in Names : nUi < MaxUiP /\ cancel_download(name)
    \/ \E name \in Names : nUi < MaxUiP /\ pause_download(name)
    \/ YieldWorker

SpecCancelPaused ==
    InitQueue /\ [][NextCancelPaused]_vars
       /\ WF_vars(AddToQueueStart) /\ WF_vars(YieldWorker)

\* a Task of series `name` waits in the queue of a running worker while the
\* series is in cancel_requested
CancelledTaskWaits(name) ==
    /\ QueuedTaskOf(name)
    /\ name \in cancel_requested
    /\ running /\ wpc # "dead"

\* C28: a Task of series A that waits while A is in cancel_requested is
\* eventually out of the queue, even if A is paused and never resumed: the
\* worker does not keep putting it back.
C28_CancelReachesPausedTask ==
    CancelledTaskWaits("A") ~> ~QueuedTaskOf("A")

(* ------------------------------------------------------------------ *)
(* Claims about the end of a started Task (SpecYield)                  *)
(* ------------------------------------------------------------------ *)
\* the worker has started a Task: manga_started is out (line 263)
TaskStarted == wpc = "resolve"

\* the signals that end a Task: the aggregate signals and download_cancelled
TerminalSignals == AggregateSignals \cup {"download_cancelled"}

\* the Task in the worker's hands has just been given its outcome: a
\* terminal signal for its series, or its remainder put back in the queue
TaskEnded ==
    \/ \E i \in 1..Len(emitted) :
          emitted[i].sig \in TerminalSignals /\ emitted[i].name = manga_name
    \/ wpc = "aggregate" /\ w_how = "paused"

\* C29: a Task that the worker has started is eventually given a terminal
\* signal or has its remainder put back in the queue, whenever the pause and
\* resume requests for its series arrive.
C29_StartedTaskEnds == TaskStarted ~> TaskEnded

(* ------------------------------------------------------------------ *)
(* Claims about the display list (SpecEnqueue)                         *)
(* ------------------------------------------------------------------ *)
\* get_queue (231-233): the display list
get_queue == download_queue_list

\* C30: every Task that waits in the queue has an entry for its series in
\* the list get_queue returns, however the calls of add_to_queue interleave
\* with the worker's reset of the list.
C30_SnapshotCoversQueue ==
    \A i \in 1..Len(download_queue) :
       \E j \in 1..Len(get_queue) :
          get_queue[j] =
             get_manga_name(download_queue[i].url, download_queue[i].site_type)
====
